---- MODULE Spec2Model ----
(***************************************************************************)
(* A model of meteo_data_analize_script.py: the historical load loop, the  *)
(* UTC -> Europe/Vilnius -> naive index conversion, the rainy-weekend      *)
(* count, the historical/forecast merge and the two interpolators.         *)
(*                                                                         *)
(* The script is sequential; each part is a pure transformation of the     *)
(* table it is given.  Every part has its own specification whose Init     *)
(* draws the part's input from bounded sets, while the variables of the    *)
(* other parts stay idle.                                                  *)
(***************************************************************************)
EXTENDS Integers, Sequences, FiniteSets

VARIABLES
    \* interpolation (lines 141-165)
    series, ipc, linear_interp, pandas_interp,
    \* merge (lines 125-126)
    historical_weather, forecast_weather, all_weather, mpc,
    \* index normalisation (lines 43-52, 56-65)
    utc_times, tz_index, tpc,
    \* historical load loop (lines 22-42)
    end_date, current_date, weather_records, requested, logged, fpc,
    \* rainy weekends (lines 101-122)
    condition_table, rainy_weekend_count, rpc

interpVars == <<series, ipc, linear_interp, pandas_interp>>
mergeVars == <<historical_weather, forecast_weather, all_weather, mpc>>
tzVars == <<utc_times, tz_index, tpc>>
fetchVars == <<end_date, current_date, weather_records, requested, logged, fpc>>
rainVars == <<condition_table, rainy_weekend_count, rpc>>
vars == <<interpVars, mergeVars, tzVars, fetchVars, rainVars>>

(***************************************************************************)
(* Bounds of the model.                                                    *)
(***************************************************************************)
MaxPoints == 3
MaxVal == 2
MaxGapUnits == 3
MaxStart == 1

(***************************************************************************)
(* Exact rational arithmetic for the interpolated values.  A value is      *)
(* [n, d] in lowest terms with d > 0; NaN is the value with d = 0.         *)
(***************************************************************************)
Abs(x) == IF x < 0 THEN -x ELSE x

RECURSIVE GCD(_, _)
GCD(a, b) == IF b = 0 THEN a ELSE GCD(b, a % b)

Rat(n, d) ==
    LET s == IF d < 0 THEN -1 ELSE 1
        g == GCD(Abs(n), Abs(d))
    IN  [n |-> (s * n) \div g, d |-> (s * d) \div g]

NaN == [n |-> 0, d |-> 0]
IsNaN(x) == x.d = 0
RatInt(i) == [n |-> i, d |-> 1]
RatAdd(x, y) == Rat(x.n * y.d + y.n * x.d, x.d * y.d)
RatSub(x, y) == Rat(x.n * y.d - y.n * x.d, x.d * y.d)
RatMul(x, y) == Rat(x.n * y.n, x.d * y.d)
RatDivInt(x, i) == Rat(x.n, x.d * i)
RatMulInt(x, i) == Rat(x.n * i, x.d)

(***************************************************************************)
(* Series: a sequence of rows [t, v]; t counts 5-minute steps, v is a      *)
(* rational.  A call's outcome is a series, None or a raised error.        *)
(***************************************************************************)
Returned(rows) == [kind |-> "series", rows |-> rows, error |-> ""]
ReturnedNone == [kind |-> "none", rows |-> <<>>, error |-> ""]
Raised(e) == [kind |-> "error", rows |-> <<>>, error |-> e]
NotCalled == [kind |-> "not_called", rows |-> <<>>, error |-> ""]

Values(s) == [i \in 1..Len(s) |-> s[i].v]

\* series.resample("5min").asfreq(): every 5-minute step from the first to the
\* last timestamp; the value of the sample at that step, NaN where there is none.
ResampleAsfreq(s) ==
    IF Len(s) = 0 THEN <<>>
    ELSE LET first == s[1].t
             last == s[Len(s)].t
         IN  [p \in 1..(last - first + 1) |->
                LET t == first + p - 1
                IN  [t |-> t,
                     v |-> IF \E i \in 1..Len(s) : s[i].t = t
                           THEN s[CHOOSE i \in 1..Len(s) : s[i].t = t].v
                           ELSE NaN]]

resampled_index(s) == [p \in 1..Len(ResampleAsfreq(s)) |-> ResampleAsfreq(s)[p].t]

\* np.arange(1, 12, 1)
Arange(lo, hi) == [i \in 1..(hi - lo) |-> lo + i - 1]

\* faulty variant: the offsets run 0..10, np.arange(0, 11, 1)
interpolated_segment_from_zero(s, e) ==
    LET ks == Arange(0, 11)
    IN  [i \in 1..Len(ks) |-> RatAdd(RatMulInt(RatDivInt(RatSub(e, s), 12), ks[i]), s)]

\* (e - s) / 12 * np.arange(1, 12, 1) + s
interpolated_segment(s, e) ==
    LET ks == Arange(1, 12)
    IN  [i \in 1..Len(ks) |-> RatAdd(RatMulInt(RatDivInt(RatSub(e, s), 12), ks[i]), s)]

\* faulty variant: each segment is closed with its start value s instead of e
RECURSIVE interpolated_data_closed_with_start(_, _, _)
interpolated_data_closed_with_start(values, i, acc) ==
    IF i >= Len(values) THEN acc
    ELSE interpolated_data_closed_with_start(values, i + 1,
             acc \o interpolated_segment(values[i], values[i + 1]) \o <<values[i]>>)

\* the loop over zip(series.values[:-1], series.values[1:]), from pair i on
RECURSIVE interpolated_data(_, _, _)
interpolated_data(values, i, acc) ==
    IF i >= Len(values) THEN acc
    ELSE interpolated_data(values, i + 1,
             acc \o interpolated_segment(values[i], values[i + 1]) \o <<values[i + 1]>>)

\* pd.Series(data, index=index)
PdSeries(data, index) ==
    IF Len(data) # Len(index) THEN Raised("ValueError")
    ELSE Returned([p \in 1..Len(index) |-> [t |-> index[p], v |-> data[p]]])

custom_linear_interpolation(s, interpolation_type) ==
    LET index == resampled_index(s)
    IN  IF interpolation_type = "linear"
        THEN IF Len(s) = 0 THEN Raised("IndexError")
             ELSE PdSeries(interpolated_data(Values(s), 1, <<Values(s)[1]>>), index)
        ELSE ReturnedNone

\* faulty variant: the NaNs take the last valid value (method="pad")
InterpolatePad(rows) ==
    LET valid == {p \in 1..Len(rows) : ~IsNaN(rows[p].v)}
        Fill(p) ==
            LET before == {a \in valid : a < p}
            IN  IF before = {} THEN NaN
                ELSE rows[CHOOSE x \in before : \A y \in before : y <= x].v
    IN  [p \in 1..Len(rows) |->
            [t |-> rows[p].t, v |-> IF p \in valid THEN rows[p].v ELSE Fill(p)]]

\* Series.interpolate(method="linear"): a NaN between two valid positions lies
\* on the line between them, by position; a NaN after the last valid position
\* takes the last valid value; a NaN before the first stays NaN.
InterpolateLinear(rows) ==
    LET valid == {p \in 1..Len(rows) : ~IsNaN(rows[p].v)}
        Fill(p) ==
            LET before == {a \in valid : a < p}
                after == {b \in valid : b > p}
            IN  IF before = {} THEN NaN
                ELSE LET a == CHOOSE x \in before : \A y \in before : y <= x
                     IN  IF after = {} THEN rows[a].v
                         ELSE LET b == CHOOSE x \in after : \A y \in after : x <= y
                                  slope == RatDivInt(RatSub(rows[b].v, rows[a].v), b - a)
                              IN  RatAdd(RatMulInt(slope, p - a), rows[a].v)
    IN  [p \in 1..Len(rows) |->
            [t |-> rows[p].t, v |-> IF p \in valid THEN rows[p].v ELSE Fill(p)]]

built_in_interpolation(s, interpolation_method) ==
    IF interpolation_method = "linear"
    THEN Returned(InterpolateLinear(ResampleAsfreq(s)))
    ELSE Raised("NotModelled")

(***************************************************************************)
(* The inputs: strictly increasing 5-minute-aligned timestamps, the gaps   *)
(* multiples of 30 minutes (6 steps), integer values.                      *)
(***************************************************************************)
SampleGaps == {6 * g : g \in 1..MaxGapUnits}

RECURSIVE TimesFrom(_, _)
TimesFrom(t0, gaps) ==
    IF Len(gaps) = 0 THEN <<t0>>
    ELSE <<t0>> \o TimesFrom(t0 + gaps[1], Tail(gaps))

\* the series of n points starting at t0
MakeSeries(n, t0, gaps, vals) ==
    LET times == TimesFrom(t0, gaps)
    IN  [i \in 1..n |-> [t |-> times[i], v |-> RatInt(vals[i])]]

InterpIdle ==
    /\ series = <<>>
    /\ ipc = "idle"
    /\ linear_interp = NotCalled
    /\ pandas_interp = NotCalled

InterpInit ==
    /\ \E n \in 0..MaxPoints :
        IF n = 0 THEN series = <<>>
        ELSE \E t0 \in 0..MaxStart, gaps \in [1..(n - 1) -> SampleGaps], vals \in [1..n -> 0..MaxVal] :
                series = MakeSeries(n, t0, gaps, vals)
    /\ ipc = "ready"
    /\ linear_interp = NotCalled
    /\ pandas_interp = NotCalled

\* lines 158-160; an error raised by the call ends the script
CallCustom ==
    /\ ipc = "ready"
    /\ linear_interp' = custom_linear_interpolation(series, "linear")
    /\ ipc' = IF linear_interp'.kind = "error" THEN "aborted" ELSE "custom_done"
    /\ UNCHANGED <<series, pandas_interp>>

\* lines 162-164
CallBuiltIn ==
    /\ ipc = "custom_done"
    /\ pandas_interp' = built_in_interpolation(series, "linear")
    /\ ipc' = "done"
    /\ UNCHANGED <<series, linear_interp>>

(***************************************************************************)
(* Merge (lines 125-126).  A table is a sequence of rows [t, v]; t is the  *)
(* index value.  Neither concat nor duplicated reads a row's values, so v  *)
(* is the row's identity: the table it came from and its position there.   *)
(***************************************************************************)
MaxRows == 3
MaxTime == 2

Table(src, times) == [i \in 1..Len(times) |-> [t |-> times[i], v |-> [src |-> src, row |-> i]]]

InputTables(src) ==
    UNION { {Table(src, times) : times \in [1..n -> 0..MaxTime]} : n \in 0..MaxRows }

\* pd.concat([a, b], axis=0)
PdConcat(a, b) == a \o b

\* faulty variant: keep="last"
DuplicatedKeepLast(tbl) ==
    [i \in 1..Len(tbl) |-> \E j \in (i + 1)..Len(tbl) : tbl[j].t = tbl[i].t]

\* index.duplicated(keep="first"): a row is a duplicate when an earlier row
\* has its index value
DuplicatedKeepFirst(tbl) ==
    [i \in 1..Len(tbl) |-> \E j \in 1..(i - 1) : tbl[j].t = tbl[i].t]

\* tbl.loc[mask], from row i on
RECURSIVE LocMask(_, _, _)
LocMask(tbl, mask, i) ==
    IF i > Len(tbl) THEN <<>>
    ELSE (IF mask[i] THEN <<tbl[i]>> ELSE <<>>) \o LocMask(tbl, mask, i + 1)

\* faulty variant: the mask is not negated
KeepDuplicated(tbl) == LocMask(tbl, DuplicatedKeepFirst(tbl), 1)

\* all_weather.loc[~all_weather.index.duplicated(keep="first")]
DropDuplicated(tbl) ==
    LET dup == DuplicatedKeepFirst(tbl)
    IN  LocMask(tbl, [i \in 1..Len(tbl) |-> ~dup[i]], 1)

MergeIdle ==
    /\ historical_weather = <<>>
    /\ forecast_weather = <<>>
    /\ all_weather = <<>>
    /\ mpc = "idle"

MergeInit ==
    /\ historical_weather \in InputTables("historical")
    /\ forecast_weather \in InputTables("forecast")
    /\ all_weather = <<>>
    /\ mpc = "ready"

\* line 125
Concat ==
    /\ mpc = "ready"
    /\ all_weather' = PdConcat(historical_weather, forecast_weather)
    /\ mpc' = "concatenated"
    /\ UNCHANGED <<historical_weather, forecast_weather>>

\* line 126
Deduplicate ==
    /\ mpc = "concatenated"
    /\ all_weather' = DropDuplicated(all_weather)
    /\ mpc' = "done"
    /\ UNCHANGED <<historical_weather, forecast_weather>>

(***************************************************************************)
(* Index normalisation (lines 45-50 and 58-63).  Time counts hours from    *)
(* 2024-01-01T00:00 UTC.  Europe/Vilnius is UTC+2, and UTC+3 from 01:00    *)
(* UTC on the last Sunday of March (2024-03-31) until 01:00 UTC on the     *)
(* last Sunday of October (2024-10-27).  An aware timestamp is the instant *)
(* together with the offset of its zone.                                   *)
(***************************************************************************)
DstStartUtc == 2161
DstEndUtc == 7201
StandardOffset == 2
SummerOffset == 3
MaxBatch == 2
Window == 2

VilniusOffset(u) ==
    IF DstStartUtc <= u /\ u < DstEndUtc THEN SummerOffset ELSE StandardOffset

\* .tz_localize("UTC"): the naive value is read as a UTC wall clock
TzLocalizeUTC(naive) == [utc |-> naive, off |-> 0]
\* .tz_convert("Europe/Vilnius"): same instant, the zone's offset
TzConvertVilnius(aware) == [utc |-> aware.utc, off |-> VilniusOffset(aware.utc)]
\* faulty variant: the offset is dropped from the UTC wall clock
TzLocalizeNoneOfUtc(aware) == aware.utc

\* .tz_localize(None): the wall clock of the zone, the offset dropped
TzLocalizeNone(aware) == aware.utc + aware.off

NormalizeIndex(times) ==
    [i \in 1..Len(times) |-> TzLocalizeNone(TzConvertVilnius(TzLocalizeUTC(times[i])))]

UtcInstants ==
    ((DstStartUtc - Window)..(DstStartUtc + Window)) \cup
    ((DstEndUtc - Window)..(DstEndUtc + Window))

TzIdle ==
    /\ utc_times = <<>>
    /\ tz_index = <<>>
    /\ tpc = "idle"

TzInit ==
    /\ utc_times \in UNION {[1..n -> UtcInstants] : n \in 0..MaxBatch}
    /\ tz_index = <<>>
    /\ tpc = "records"

\* load_historical_data, lines 43-52
NormalizeHistorical ==
    /\ tpc = "records"
    /\ tz_index' = NormalizeIndex(utc_times)
    /\ tpc' = "historical"
    /\ UNCHANGED utc_times

\* load_forecast_data, lines 56-65
NormalizeForecast ==
    /\ tpc = "records"
    /\ tz_index' = NormalizeIndex(utc_times)
    /\ tpc' = "forecast"
    /\ UNCHANGED utc_times

(***************************************************************************)
(* The historical load loop (lines 22-44).  Dates count days from          *)
(* start_date, which is day 0.  A record is [day, k]: the k-th observation *)
(* of the day's response.                                                  *)
(***************************************************************************)
MaxDays == 3
MaxObsPerDay == 2

start_date == 0

FetchOutcomes == {"ok", "transport_error", "bad_status"}

\* __fetch_data: the parsed body, or None after the failure was printed
FetchData(outcome, day, nobs) ==
    IF outcome = "ok"
    THEN [none |-> FALSE, observations |-> [k \in 1..nobs |-> [day |-> day, k |-> k]]]
    ELSE [none |-> TRUE, observations |-> <<>>]

FetchMessage(outcome) ==
    IF outcome = "transport_error" THEN "Error fetching data"
    ELSE "Failed to fetch data. HTTP status"

FetchIdle ==
    /\ end_date = 0
    /\ current_date = 0
    /\ weather_records = <<>>
    /\ requested = <<>>
    /\ logged = <<>>
    /\ fpc = "idle"

FetchInit ==
    /\ end_date \in 0..MaxDays
    /\ current_date = start_date
    /\ weather_records = <<>>
    /\ requested = <<>>
    /\ logged = <<>>
    /\ fpc = "loop"

\* one pass of the while loop (lines 38-42) with the fetch's outcome given:
\* None["observations"] raises TypeError and the load ends there
LoopPass(outcome, nobs) ==
    LET data == FetchData(outcome, current_date, nobs)
    IN  /\ fpc = "loop"
        /\ current_date < end_date
        /\ requested' = Append(requested, current_date)
        /\ logged' = IF outcome = "ok" THEN logged
                     ELSE Append(logged, [day |-> current_date, msg |-> FetchMessage(outcome)])
        /\ IF data.none
           THEN /\ fpc' = "TypeError"
                /\ UNCHANGED <<weather_records, current_date>>
           ELSE /\ weather_records' = weather_records \o data.observations
                /\ current_date' = current_date + 1
                /\ fpc' = "loop"
        /\ UNCHANGED end_date

FetchDayOk == \E nobs \in 0..MaxObsPerDay : LoopPass("ok", nobs)
FetchDayTransportError == LoopPass("transport_error", 0)
FetchDayBadStatus == LoopPass("bad_status", 0)

\* lines 43-52: with no record at all there is no observationTimeUtc column
\* and set_index raises KeyError
BuildTable ==
    /\ fpc = "loop"
    /\ ~(current_date < end_date)
    /\ fpc' = IF Len(weather_records) = 0 THEN "KeyError" ELSE "returned"
    /\ UNCHANGED <<end_date, current_date, weather_records, requested, logged>>

(***************************************************************************)
(* Rainy weekends (lines 101-122).  A row is [day, slot, code]: day counts *)
(* local calendar days from a Monday, slot is the time of day, code is the *)
(* condition code as a sequence of characters.                             *)
(***************************************************************************)
MaxWeek == 1
MaxSlot == 1
MaxObs == 2

Weekday(day) == day % 7

ConditionCodes ==
    { <<"r", "a", "i", "n">>,
      <<"l", "i", "g", "h", "t", "-", "r", "a", "i", "n">>,
      <<"c", "l", "e", "a", "r">> }

\* Friday, Saturday and Sunday of each week
ObservationDays == {7 * w + wd : w \in 0..MaxWeek, wd \in {4, 5, 6}}

ObservationRows ==
    [day : ObservationDays, slot : 0..MaxSlot, code : ConditionCodes]

NaNCell == <<"NaN">>
\* str(x): str(nan) is "nan"
Str(x) == IF x = NaNCell THEN <<"n", "a", "n">> ELSE x

\* sub in s
Contains(sub, s) ==
    \E i \in 0..(Len(s) - Len(sub)) : SubSeq(s, i + 1, i + Len(sub)) = sub

IsRainy(x) == Contains(<<"r", "a", "i", "n">>, Str(x))

\* historical_weather["conditionCode"][historical_weather.index.weekday == wd],
\* as the set of the selected rows with their positions
SelectWeekday(tbl, wd) ==
    {[pos |-> i, day |-> tbl[i].day, slot |-> tbl[i].slot, code |-> tbl[i].code] :
        i \in {j \in 1..Len(tbl) : Weekday(tbl[j].day) = wd}}

\* sunday_weather.index -= timedelta(days=1)
ShiftBackOneDay(rows) ==
    {[pos |-> r.pos, day |-> r.day - 1, slot |-> r.slot, code |-> r.code] : r \in rows}

\* faulty variant: how="inner"
MergeInner(left, right) ==
    {[day |-> p[1].day, slot |-> p[1].slot, x |-> p[1].code, y |-> p[2].code,
      li |-> p[1].pos, ri |-> p[2].pos] :
        p \in {q \in left \X right : q[1].day = q[2].day /\ q[1].slot = q[2].slot}}

\* pd.merge(left, right, left_index=True, right_index=True, how="outer"):
\* every pair of rows with the same index value, and every unmatched row
\* with NaN on the other side
MergeOuter(left, right) ==
    LET Same(l, r) == l.day = r.day /\ l.slot = r.slot
    IN  {[day |-> p[1].day, slot |-> p[1].slot, x |-> p[1].code, y |-> p[2].code,
              li |-> p[1].pos, ri |-> p[2].pos] :
            p \in {q \in left \X right : Same(q[1], q[2])}}
        \cup
        {[day |-> l.day, slot |-> l.slot, x |-> l.code, y |-> NaNCell, li |-> l.pos, ri |-> 0] :
            l \in {q \in left : \A r \in right : ~Same(q, r)}}
        \cup
        {[day |-> r.day, slot |-> r.slot, x |-> NaNCell, y |-> r.code, li |-> 0, ri |-> r.pos] :
            r \in {q \in right : \A l \in left : ~Same(l, q)}}

combined_weekend(tbl) ==
    MergeOuter(SelectWeekday(tbl, 5), ShiftBackOneDay(SelectWeekday(tbl, 6)))

\* rainy_sat | rainy_sun, with the date column
rainy_combined(tbl) ==
    {[date |-> r.day, li |-> r.li, ri |-> r.ri, rainy |-> IsRainy(r.x) \/ IsRainy(r.y)] :
        r \in combined_weekend(tbl)}

\* groupby("date").agg(list) ... .apply(lambda x: True in x).sum()
RainyWeekendCount(tbl) ==
    LET rows == rainy_combined(tbl)
        dates == {r.date : r \in rows}
        group == [d \in dates |-> {r \in rows : r.date = d}]
    IN  Cardinality({d \in dates : \E r \in group[d] : r.rainy})

RainIdle ==
    /\ condition_table = <<>>
    /\ rainy_weekend_count = -1
    /\ rpc = "idle"

RainInit ==
    /\ condition_table = <<>>
    /\ rainy_weekend_count = -1
    /\ rpc = "loading"

\* the records arrive in time order (the days are fetched in order)
LoadObservation ==
    \E row \in ObservationRows :
        /\ rpc = "loading"
        /\ Len(condition_table) < MaxObs
        /\ IF Len(condition_table) = 0 THEN TRUE
           ELSE LET last == condition_table[Len(condition_table)]
                IN  \/ last.day < row.day
                    \/ last.day = row.day /\ last.slot <= row.slot
        /\ condition_table' = Append(condition_table, row)
        /\ UNCHANGED <<rainy_weekend_count, rpc>>

\* lines 101-122, on the loaded table (a load with no record raises)
CountRainyWeekends ==
    /\ rpc = "loading"
    /\ Len(condition_table) > 0
    /\ rainy_weekend_count' = RainyWeekendCount(condition_table)
    /\ rpc' = "counted"
    /\ UNCHANGED condition_table

(***************************************************************************)
(* The specifications, one per part.                                       *)
(***************************************************************************)
InterpNext ==
    \/ CallCustom /\ UNCHANGED <<mergeVars, tzVars, fetchVars, rainVars>>
    \/ CallBuiltIn /\ UNCHANGED <<mergeVars, tzVars, fetchVars, rainVars>>

InitInterp == InterpInit /\ MergeIdle /\ TzIdle /\ FetchIdle /\ RainIdle

SpecInterp == InitInterp /\ [][InterpNext]_vars

MergeNext ==
    \/ Concat /\ UNCHANGED <<interpVars, tzVars, fetchVars, rainVars>>
    \/ Deduplicate /\ UNCHANGED <<interpVars, tzVars, fetchVars, rainVars>>

InitMerge == InterpIdle /\ MergeInit /\ TzIdle /\ FetchIdle /\ RainIdle

SpecMerge == InitMerge /\ [][MergeNext]_vars

TzNext ==
    \/ NormalizeHistorical /\ UNCHANGED <<interpVars, mergeVars, fetchVars, rainVars>>
    \/ NormalizeForecast /\ UNCHANGED <<interpVars, mergeVars, fetchVars, rainVars>>

InitTz == InterpIdle /\ MergeIdle /\ TzInit /\ FetchIdle /\ RainIdle

SpecTz == InitTz /\ [][TzNext]_vars

FetchNext ==
    \/ FetchDayOk /\ UNCHANGED <<interpVars, mergeVars, tzVars, rainVars>>
    \/ FetchDayTransportError /\ UNCHANGED <<interpVars, mergeVars, tzVars, rainVars>>
    \/ FetchDayBadStatus /\ UNCHANGED <<interpVars, mergeVars, tzVars, rainVars>>
    \/ BuildTable /\ UNCHANGED <<interpVars, mergeVars, tzVars, rainVars>>

InitFetch == InterpIdle /\ MergeIdle /\ TzIdle /\ FetchInit /\ RainIdle

SpecFetch == InitFetch /\ [][FetchNext]_vars

RainNext ==
    \/ LoadObservation /\ UNCHANGED <<interpVars, mergeVars, tzVars, fetchVars>>
    \/ CountRainyWeekends /\ UNCHANGED <<interpVars, mergeVars, tzVars, fetchVars>>

InitRain == InterpIdle /\ MergeIdle /\ TzIdle /\ FetchIdle /\ RainInit

SpecRain == InitRain /\ [][RainNext]_vars

(***************************************************************************)
(* Properties of the interpolators.                                        *)
(***************************************************************************)
\* consecutive timestamps exactly one hour (12 steps) apart
Hourly(s) == \A i \in 1..(Len(s) - 1) : s[i + 1].t - s[i].t = 12

HasRowAt(rows, t) == \E p \in 1..Len(rows) : rows[p].t = t
ValueAt(rows, t) == rows[CHOOSE p \in 1..Len(rows) : rows[p].t = t].v

\* the index is every 5-minute step from the first to the last timestamp of s
OnFiveMinuteGrid(rows, s) ==
    /\ Len(rows) = s[Len(s)].t - s[1].t + 1
    /\ \A p \in 1..Len(rows) : rows[p].t = s[1].t + p - 1

\* C1: for an input of two or more points spaced exactly one hour apart, the
\* custom interpolator returns a series on the 5-minute grid from the first to
\* the last timestamp whose value at t_i + 5k minutes (k in 1..11) is
\* v_i + k*(v_{i+1} - v_i)/12 and whose value at t_i + 1h is v_{i+1}.
C1_HourlySegmentValues ==
    (linear_interp.kind # "not_called" /\ Len(series) >= 2 /\ Hourly(series)) =>
        /\ linear_interp.kind = "series"
        /\ OnFiveMinuteGrid(linear_interp.rows, series)
        /\ \A i \in 1..(Len(series) - 1) :
            /\ \A k \in 1..11 :
                ValueAt(linear_interp.rows, series[i].t + k) =
                    RatAdd(series[i].v,
                           RatDivInt(RatMulInt(RatSub(series[i + 1].v, series[i].v), k), 12))
            /\ ValueAt(linear_interp.rows, series[i].t + 12) = series[i + 1].v

C1_Witness ==
    /\ linear_interp.kind = "series"
    /\ Len(series) = 3
    /\ Hourly(series)
    /\ series[1].v # series[2].v
    /\ series[2].v # series[3].v
    /\ Len(linear_interp.rows) = 25

\* C2: for an input of two or more points with strictly increasing, exactly
\* hourly timestamps, the custom and the library interpolator return series
\* with the same 5-minute index and the same value at every index position.
C2_CustomEqualsBuiltIn ==
    (ipc = "done" /\ Len(series) >= 2 /\ Hourly(series)) =>
        /\ linear_interp.kind = "series"
        /\ pandas_interp.kind = "series"
        /\ Len(linear_interp.rows) = Len(pandas_interp.rows)
        /\ \A p \in 1..Len(linear_interp.rows) :
            /\ linear_interp.rows[p].t = pandas_interp.rows[p].t
            /\ linear_interp.rows[p].v = pandas_interp.rows[p].v

C2_Witness ==
    /\ ipc = "done"
    /\ Len(series) = 3
    /\ Hourly(series)
    /\ series[1].v.n < series[2].v.n
    /\ series[3].v.n < series[2].v.n
    /\ pandas_interp.kind = "series"
    /\ \E p \in 1..Len(pandas_interp.rows) : pandas_interp.rows[p].v.d = 12

\* C3: the custom interpolator fails with an error, and returns no series,
\* whenever the input has fewer than 2 points (0 points and 1 point).
C3_FewerThanTwoPointsFail ==
    (linear_interp.kind # "not_called" /\ Len(series) < 2) => linear_interp.kind = "error"

\* every original timestamp carries exactly the original value
SamplesPreserved(rows, s) ==
    \A i \in 1..Len(s) : HasRowAt(rows, s[i].t) /\ ValueAt(rows, s[i].t) = s[i].v

\* every row strictly between two consecutive samples lies on the straight
\* line between them, by elapsed time
BetweenOnLine(rows, s) ==
    \A i \in 1..(Len(s) - 1) : \A p \in 1..Len(rows) :
        (s[i].t < rows[p].t /\ rows[p].t < s[i + 1].t) =>
            RatMulInt(RatSub(rows[p].v, s[i].v), s[i + 1].t - s[i].t) =
                RatMulInt(RatSub(s[i + 1].v, s[i].v), rows[p].t - s[i].t)

\* C4 as stated: for two or more points with strictly increasing
\* 5-minute-aligned timestamps, whatever their spacing, every returned series
\* has the original value at each original timestamp and, between two
\* consecutive samples, values on the straight line between them.
C4_AnySpacingOnLine ==
    (linear_interp.kind = "series" /\ Len(series) >= 2) =>
        /\ SamplesPreserved(linear_interp.rows, series)
        /\ BetweenOnLine(linear_interp.rows, series)

\* C4 amended: the same, for inputs whose consecutive timestamps are exactly
\* one hour apart.
C4_HourlySpacingOnLine ==
    (linear_interp.kind = "series" /\ Len(series) >= 2 /\ Hourly(series)) =>
        /\ SamplesPreserved(linear_interp.rows, series)
        /\ BetweenOnLine(linear_interp.rows, series)

C4_Witness ==
    /\ linear_interp.kind = "series"
    /\ Len(series) = 2
    /\ Hourly(series)
    /\ series[1].v # series[2].v
    /\ Len(linear_interp.rows) = 13

(***************************************************************************)
(* Properties of the merge.                                                *)
(***************************************************************************)
Index(tbl) == {tbl[i].t : i \in 1..Len(tbl)}
FirstRowAt(tbl, t) == tbl[CHOOSE i \in 1..Len(tbl) : tbl[i].t = t /\ \A j \in 1..(i - 1) : tbl[j].t # t]
Ascending(tbl) == \A i \in 1..(Len(tbl) - 1) : tbl[i].t <= tbl[i + 1].t

\* C5: when the historical and the forecast table both hold a row at a
\* timestamp, all_weather holds the historical table's values there.
C5_PrimaryWins ==
    mpc = "done" =>
        \A t \in Index(historical_weather) \cap Index(forecast_weather) :
            /\ t \in Index(all_weather)
            /\ \A i \in 1..Len(all_weather) :
                all_weather[i].t = t => all_weather[i].v = FirstRowAt(historical_weather, t).v

C5_Witness ==
    /\ mpc = "done"
    /\ \E t \in Index(historical_weather) \cap Index(forecast_weather) :
        /\ FirstRowAt(all_weather, t).v.src = "historical"
        /\ Index(forecast_weather) # {t}

\* C6: for any historical and forecast tables, also ones that repeat a
\* timestamp themselves, the index of all_weather holds no timestamp twice
\* and holds every timestamp of either input.
C6_UniqueUnion ==
    mpc = "done" =>
        /\ \A i, j \in 1..Len(all_weather) : all_weather[i].t = all_weather[j].t => i = j
        /\ Index(all_weather) = Index(historical_weather) \cup Index(forecast_weather)

C6_Witness ==
    /\ mpc = "done"
    /\ Len(historical_weather) > Cardinality(Index(historical_weather))
    /\ Len(forecast_weather) > Cardinality(Index(forecast_weather))
    /\ Index(forecast_weather) \ Index(historical_weather) # {}
    /\ Index(historical_weather) \cap Index(forecast_weather) # {}

\* C7: if the historical and the forecast table are each in ascending
\* timestamp order, all_weather is in ascending timestamp order.
C7_AscendingPreserved ==
    (mpc = "done" /\ Ascending(historical_weather) /\ Ascending(forecast_weather)) =>
        Ascending(all_weather)

(***************************************************************************)
(* Properties of the index normalisation.                                  *)
(***************************************************************************)
\* the UTC instants whose Europe/Vilnius wall clock is the naive value
LocalToUtc(naive) ==
    {u \in (naive - SummerOffset)..(naive - StandardOffset) : u + VilniusOffset(u) = naive}

\* the hour before and the hour after the switch back to standard time
RepeatedHour == {DstEndUtc - 1, DstEndUtc}

\* C8 as stated: the index, converted back to UTC, equals the original
\* timestamps exactly, and two distinct UTC timestamps never yield the same
\* naive local index value, also across daylight-saving transitions.
C8_RoundTripExact ==
    tpc # "records" =>
        /\ \A i \in 1..Len(utc_times) : LocalToUtc(tz_index[i]) = {utc_times[i]}
        /\ \A i, j \in 1..Len(utc_times) :
            utc_times[i] # utc_times[j] => tz_index[i] # tz_index[j]

\* C8 amended: the round trip is exact for every timestamp outside the hour
\* before and the hour after the autumn switch to standard time; the only
\* distinct UTC timestamps with the same naive local value lie one in each of
\* these two hours.
C8_RoundTripOutsideRepeatedHour ==
    tpc # "records" =>
        /\ Len(tz_index) = Len(utc_times)
        /\ \A i \in 1..Len(utc_times) :
            utc_times[i] \notin RepeatedHour => LocalToUtc(tz_index[i]) = {utc_times[i]}
        /\ \A i, j \in 1..Len(utc_times) :
            (utc_times[i] # utc_times[j] /\ tz_index[i] = tz_index[j]) =>
                {utc_times[i], utc_times[j]} = RepeatedHour

C8_Witness ==
    /\ tpc = "historical"
    /\ Len(utc_times) = 2
    /\ utc_times[1] = DstStartUtc - 1
    /\ utc_times[2] = DstStartUtc
    /\ tz_index[2] - tz_index[1] = 2

(***************************************************************************)
(* Properties of the historical load.                                      *)
(***************************************************************************)
\* C9: when a fetch for one day fails with a transport error or a non-200
\* status, the failure is logged, the load does not abort, the remaining days
\* are still fetched in order, and the returned table lacks that day's records.
C9_FailedDaySkipped ==
    Len(logged) > 0 =>
        /\ fpc \in {"loop", "returned"}
        /\ fpc = "returned" =>
            /\ requested = [i \in 1..end_date |-> start_date + i - 1]
            /\ \A r \in 1..Len(weather_records) :
                \A m \in 1..Len(logged) : weather_records[r].day # logged[m].day

(***************************************************************************)
(* Properties of the rainy-weekend count.                                  *)
(***************************************************************************)
Saturdays(tbl) ==
    {d \in {tbl[i].day : i \in 1..Len(tbl)} \cup {tbl[i].day - 1 : i \in 1..Len(tbl)} :
        Weekday(d) = 5}

RainOn(tbl, day) ==
    \E i \in 1..Len(tbl) : tbl[i].day = day /\ Contains(<<"r", "a", "i", "n">>, tbl[i].code)

\* C10: the rainy-weekend count is the number of distinct Saturday dates d
\* with an observation on Saturday d or on the following Sunday d+1 whose
\* condition code contains "rain".
C10_RainyWeekendCount ==
    rpc = "counted" =>
        rainy_weekend_count =
            Cardinality({d \in Saturdays(condition_table) :
                RainOn(condition_table, d) \/ RainOn(condition_table, d + 1)})

\* a rainy Saturday with no Sunday record at all
C10_Witness ==
    /\ rpc = "counted"
    /\ rainy_weekend_count = 1
    /\ \E i \in 1..Len(condition_table) :
        /\ Weekday(condition_table[i].day) = 5
        /\ condition_table[i].code = <<"l", "i", "g", "h", "t", "-", "r", "a", "i", "n">>
    /\ \A i \in 1..Len(condition_table) : Weekday(condition_table[i].day) # 6

====
